---- MODULE Spec2Model ----
(***************************************************************************)
(* A model of the three pre-commit hooks of custom_hooks:                  *)
(*   copyright_checker   (copyright_checker.py)                            *)
(*   only_module_imports (only_module_imports.py)                          *)
(*   check_version_bumped (check_version_bumped.py, utils.py)              *)
(* Text is a sequence of one-character strings, so that slicing, find,     *)
(* replace, splitlines and the regular expressions of the code are         *)
(* computed character by character as Python computes them.  Indexes in    *)
(* the helpers are Python's (0-based, half-open).                          *)
(***************************************************************************)
EXTENDS Integers, Sequences, FiniteSets, TLC

\* ------------------------------------------------------------------ bounds
\* Longest list of command-line arguments of one invocation.
MaxFiles == 2
\* Number of times a hook is run in succession on the same working tree.
MaxRuns == 2

\* -------------------------------------------------------------- characters
NL == "\n"
FF == "\f"
TAB == "\t"
BSL == "\\"
Digit == {"0", "1", "2", "3", "4", "5", "6", "7", "8", "9"}
Lower == {"a", "b", "c", "d", "e", "f", "g", "h", "i", "j", "k", "l", "m",
          "n", "o", "p", "q", "r", "s", "t", "u", "v", "w", "x", "y", "z"}
Upper == {"A", "B", "C", "D", "E", "F", "G", "H", "I", "J", "K", "L", "M",
          "N", "O", "P", "Q", "R", "S", "T", "U", "V", "W", "X", "Y", "Z"}
Alpha == Lower \cup Upper
\* The line boundaries of str.splitlines() that text read by open() in
\* universal-newline mode can still hold and that the model's alphabet has.
LineBreak == {NL, FF}

\* ------------------------------------------------------- Python str helpers
\* s[a:b]
Slice(s, a, b) == SubSeq(s, a + 1, b)
\* s[a:]
From(s, a) == SubSeq(s, a + 1, Len(s))
\* s[i:].startswith(p), for 0 <= i
StartsWithAt(s, i, p) ==
    /\ i + Len(p) <= Len(s)
    /\ \A k \in 1..Len(p) : s[i + k] = p[k]
\* s.find(c) for a one-character c: the lowest index, or -1
Find(s, c) ==
    LET hits == {i \in 0..(Len(s) - 1) : s[i + 1] = c}
    IN  IF hits = {} THEN 0 - 1
        ELSE CHOOSE i \in hits : \A j \in hits : i <= j
\* the highest index of c in s, or -1 (str.rfind)
RFind(s, c) ==
    LET hits == {i \in 0..(Len(s) - 1) : s[i + 1] = c}
    IN  IF hits = {} THEN 0 - 1
        ELSE CHOOSE i \in hits : \A j \in hits : i >= j
\* s.replace(old, new): every non-overlapping occurrence, left to right
RECURSIVE ReplaceAll(_, _, _)
ReplaceAll(s, old, new) ==
    IF s = <<>> \/ old = <<>> THEN s
    ELSE IF StartsWithAt(s, 0, old)
         THEN new \o ReplaceAll(From(s, Len(old)), old, new)
         ELSE <<s[1]>> \o ReplaceAll(Tail(s), old, new)
\* old in s
Contains(s, old) == \E i \in 0..Len(s) : StartsWithAt(s, i, old)

DigitValue(c) ==
    CASE c = "0" -> 0 [] c = "1" -> 1 [] c = "2" -> 2 [] c = "3" -> 3
      [] c = "4" -> 4 [] c = "5" -> 5 [] c = "6" -> 6 [] c = "7" -> 7
      [] c = "8" -> 8 [] c = "9" -> 9
DigitChar(n) == <<"0", "1", "2", "3", "4", "5", "6", "7", "8", "9">>[n + 1]
\* int(s) for a string of decimal digits: leading zeros are dropped
RECURSIVE StrToInt(_)
StrToInt(s) ==
    IF s = <<>> THEN 0
    ELSE 10 * StrToInt(SubSeq(s, 1, Len(s) - 1)) + DigitValue(s[Len(s)])
\* str(n) for n >= 0: no leading zeros, "0" for zero
RECURSIVE IntToStr(_)
IntToStr(n) ==
    IF n < 10 THEN <<DigitChar(n)>>
    ELSE IntToStr(n \div 10) \o <<DigitChar(n % 10)>>

\* s.splitlines(): the lines without their line boundaries; a final line
\* boundary opens no empty last line
RECURSIVE SplitLines(_)
SplitLines(s) ==
    IF s = <<>> THEN <<>>
    ELSE LET hits == {i \in 0..(Len(s) - 1) : s[i + 1] \in LineBreak}
         IN  IF hits = {} THEN <<s>>
             ELSE LET i == CHOOSE x \in hits : \A y \in hits : x <= y
                  IN  <<Slice(s, 0, i)>> \o SplitLines(From(s, i + 1))
\* "\n".join(lines)
RECURSIVE JoinLines(_)
JoinLines(lines) ==
    IF lines = <<>> THEN <<>>
    ELSE IF Len(lines) = 1 THEN lines[1]
    ELSE lines[1] \o <<NL>> \o JoinLines(Tail(lines))

\* os.path.basename(p): what follows the last "/"
Basename(p) == From(p, RFind(p, "/") + 1)
\* s.split(".")[-1]: what follows the last ".", or s when it has none
LastDotSegment(s) == From(s, RFind(s, ".") + 1)

\* ------------------------------------------------ copyright_checker: tables
HASH_ENDINGS ==
    {<<"c","f","g">>, <<"c","o","n","f">>, <<"D","o","c","k","e","r","f","i","l","e">>, <<"h","c","l">>, <<"i","n","i">>, <<"M","a","k","e","f","i","l","e">>,
     <<"p","r","o","p","e","r","t","i","e","s">>, <<"p","s","1">>, <<"p","y">>, <<"s","h">>, <<"t","x","t">>, <<"t","f">>, <<"t","o","m","l">>,
     <<"y","a","m","l">>, <<"y","m","l">>, <<"g","i","t","i","g","n","o","r","e">>}
DASH_ENDINGS == {<<"l","u","a">>}
MD_ENDINGS == {<<"m","d">>}
STAR_ENDINGS == {<<"g","r","a","d","l","e">>, <<"g","r","o","o","v","y">>, <<"j","a","v","a">>, <<"j","s">>, <<"t","s">>, <<"c","s","s">>}

\* COPYRIGHT.format(year=year, owner=owner); year is an int, owner a str
COPYRIGHT(year, owner) ==
    <<"C","o","p","y","r","i","g","h","t"," ","(","c",")"," ">> \o IntToStr(year) \o <<" ","b","y"," ">> \o owner
        \o <<"."," ","A","l","l"," ","r","i","g","h","t","s"," ","r","e","s","e","r","v","e","d",".">>

\* wrap_copyright: "" when no comment style is registered for the ending
wrap_copyright(filename, new_copyright) ==
    LET ending == LastDotSegment(Basename(filename))
    IN  IF ending \in HASH_ENDINGS
          THEN <<"#","\n","#"," ">> \o new_copyright \o <<"\n","#","\n">>
        ELSE IF ending \in DASH_ENDINGS
          THEN <<"-","-","\n","-","-"," ">> \o new_copyright \o <<"\n","-","-","\n">>
        ELSE IF ending \in MD_ENDINGS
          THEN LET escaped_copyright ==
                     ReplaceAll(ReplaceAll(new_copyright, <<"(">>, <<"\\","(">>),
                                <<")">>, <<"\\",")">>)
               IN  <<"[","/","/","]",":"," ","#"," ","(">> \o escaped_copyright \o <<")","\n">>
        ELSE IF ending \in STAR_ENDINGS
          THEN <<"/","*","\n"," ","*"," ">> \o new_copyright \o <<"\n"," ","*","/","\n">>
        ELSE <<>>

\* ----------------------------------------- copyright_checker: special lines
\* [ \t\f]* and [ \t]*, greedy: the index after the run that starts at i
RECURSIVE SkipChars(_, _, _)
SkipChars(s, i, class) ==
    IF i < Len(s) /\ s[i + 1] \in class THEN SkipChars(s, i + 1, class) ELSE i
\* [-_.a-zA-Z0-9]
EncodingNameChar == {"-", "_", "."} \cup Alpha \cup Digit
\* encoding_rgx.match(line) is not None, for
\*   ^[ \t\f]*#.*?coding[:=][ \t]*([-_.a-zA-Z0-9]+)
\* "." matches every character but "\n"
encoding_rgx_match(line) ==
    LET h == SkipChars(line, 0, {" ", TAB, FF})
    IN  /\ h < Len(line)
        /\ line[h + 1] = "#"
        /\ \E j \in (h + 1)..Len(line) :
              /\ \A k \in (h + 2)..j : line[k] # NL
              /\ StartsWithAt(line, j, <<"c","o","d","i","n","g">>)
              /\ j + 6 < Len(line)
              /\ line[j + 7] \in {":", "="}
              /\ LET v == SkipChars(line, j + 7, {" ", TAB})
                 IN  v < Len(line) /\ line[v + 1] \in EncodingNameChar

get_index_after_special_lines(content) ==
    LET first_line_index == Find(content, NL) + 1
        first_line == Slice(content, 0, first_line_index)
        rest == From(content, first_line_index)
        second_line_index == Find(rest, NL) + first_line_index + 1
        second_line == Slice(content, first_line_index, second_line_index)
    IN  IF StartsWithAt(first_line, 0, <<"#","!">>) \/ encoding_rgx_match(first_line)
        THEN IF encoding_rgx_match(second_line)
             THEN second_line_index
             ELSE first_line_index
        ELSE 0

\* ------------------------------------------------- copyright_checker: head
\* The index (1-based) of the first line whose first character is a letter,
\* or 0: the line content_head breaks at.
FirstCodeLine(lines) ==
    LET code == {i \in 1..Len(lines) : lines[i] # <<>> /\ lines[i][1] \in Alpha}
    IN  IF code = {} THEN 0 ELSE CHOOSE i \in code : \A j \in code : i <= j
content_head(content) ==
    LET lines == SplitLines(content)
        stop == FirstCodeLine(lines)
    IN  JoinLines(IF stop = 0 THEN lines ELSE SubSeq(lines, 1, stop))

\* ------------------------------------------ copyright_checker: the pattern
\*   Copyright \\?\(c\\?\) ([0-9]{4})(, [0-9]{4})? by {owner}
\* Each piece maps an index to the index after the piece, -1 for no match.
Lit(s, i, p) == IF i >= 0 /\ StartsWithAt(s, i, p) THEN i + Len(p) ELSE 0 - 1
Opt(s, i, p) == IF i >= 0 /\ StartsWithAt(s, i, p) THEN i + Len(p) ELSE i
FourDigits(s, i) ==
    IF i >= 0 /\ i + 4 <= Len(s) /\ \A k \in 1..4 : s[i + k] \in Digit
    THEN i + 4 ELSE 0 - 1
NoMatch == [ok |-> FALSE]
\* The match of copyright_rgx that starts at index i of s, if there is one;
\* group2 is "" for None (a matched group 2 is never empty).
copyright_rgx_at(s, i, owner) ==
    LET y == Lit(s, Opt(s, Lit(s, Opt(s, Lit(s, i, <<"C","o","p","y","r","i","g","h","t"," ">>), <<BSL>>),
                                  <<"(","c">>), <<BSL>>), <<")"," ">>)
        y1 == FourDigits(s, y)
        y2 == FourDigits(s, Lit(s, y1, <<","," ">>))
        range == Lit(s, Lit(s, y2, <<" ","b","y"," ">>), owner)
        single == Lit(s, Lit(s, y1, <<" ","b","y"," ">>), owner)
    IN  IF range >= 0
          THEN [ok |-> TRUE, start |-> i, end |-> range,
                group1 |-> Slice(s, y, y1), group2 |-> Slice(s, y1, y2)]
        ELSE IF single >= 0
          THEN [ok |-> TRUE, start |-> i, end |-> single,
                group1 |-> Slice(s, y, y1), group2 |-> <<>>]
        ELSE NoMatch
\* copyright_rgx.search(s): the leftmost match
copyright_rgx_search(s, owner) ==
    LET starts == {i \in 0..Len(s) : copyright_rgx_at(s, i, owner).ok}
    IN  IF starts = {} THEN NoMatch
        ELSE copyright_rgx_at(s, CHOOSE i \in starts : \A j \in starts : i <= j,
                              owner)
\* A replacement template of re.sub, expanded: "\\" gives one backslash,
\* "\n" a newline, and a backslash before a character that is neither a
\* letter nor a digit stays with that character.
RECURSIVE ExpandTemplate(_)
ExpandTemplate(t) ==
    IF t = <<>> THEN <<>>
    ELSE IF t[1] = BSL /\ Len(t) >= 2
         THEN (IF t[2] = BSL THEN <<BSL>>
               ELSE IF t[2] = "n" THEN <<NL>>
               ELSE <<t[1], t[2]>>) \o ExpandTemplate(From(t, 2))
         ELSE <<t[1]>> \o ExpandTemplate(Tail(t))
\* copyright_rgx.sub(repl, s, 1): the first match in s replaced
copyright_rgx_sub1(repl, s, owner) ==
    LET m == copyright_rgx_search(s, owner)
    IN  IF m.ok
        THEN Slice(s, 0, m.start) \o ExpandTemplate(repl) \o From(s, m.end)
        ELSE s

\* --------------------------------------------------- Python truthiness
\* None, for the int | None values of the code (years are never negative)
None == 0 - 1
\* "not v" / the left operand of "v or w" being false: None and 0
Falsy(v) == v = None \/ v = 0
\* a or b, for ints
PyOr(a, b) == IF Falsy(a) THEN b ELSE a

\* result = check(...) or result, with the check's result kept only
accumulate_last(ret, result) == ret
\* result = check(...) or result: the check is called first, then "or"
accumulate(ret, result) == PyOr(ret, result)

\* ------------------------------------------------------ paths of the checker
\* os.path.join(a, b)
PathJoin(a, b) ==
    IF StartsWithAt(b, 0, <<"/">>) THEN b
    ELSE IF a = <<>> \/ a[Len(a)] = "/" THEN a \o b
    ELSE a \o <<"/">> \o b
\* The directory the hooks run in, which is the working tree of the repository
WorkingDir == <<"/","w">>
\* os.path.abspath(filename), for a filename that needs no normalisation
\* (no "." or ".." segment, no doubled or trailing slash)
abspath(filename) ==
    IF StartsWithAt(filename, 0, <<"/">>) THEN filename
    ELSE PathJoin(WorkingDir, filename)

\* ------------------------------------------------------ git queries, files
IsLeap(y) == (y % 4 = 0 /\ y % 100 # 0) \/ y % 400 = 0
RECURSIVE YearFromDays(_, _)
YearFromDays(days, year) ==
    LET n == IF IsLeap(year) THEN 366 ELSE 365
    IN  IF days < n THEN year ELSE YearFromDays(days - n, year + 1)
\* datetime.datetime.utcfromtimestamp(ts).year
utcfromtimestamp_year(ts) == YearFromDays(ts \div 86400, 1970)
\* file_authored: log_out is the output of git log --format=%at -1 -- filename
file_authored(log_out) ==
    IF log_out = <<>> THEN None ELSE utcfromtimestamp_year(StrToInt(log_out))
\* file_staged: index_paths are the a_path of repo.index.diff("HEAD")
file_staged(filename, index_paths) ==
    filename \in {PathJoin(WorkingDir, f) : f \in index_paths}
\* write_file: the content of the file afterwards
write_file(file, content) == IF file.writable THEN content ELSE file.content

\* ------------------------------------------ copyright_checker: operations
\* insert_missing_copyright with the blank line added to an empty file too
insert_missing_copyright_blank(filename, file, content, year, owner) ==
    LET wrapped == wrap_copyright(filename, COPYRIGHT(year, owner))
        index == get_index_after_special_lines(content)
        new_content ==
            IF index # 0
            THEN Slice(content, 0, index) \o wrapped \o From(content, index)
            ELSE wrapped \o <<NL>> \o content
    IN  IF wrapped # <<>>
        THEN [out |-> "Adding copyright", content |-> write_file(file, new_content)]
        ELSE [out |-> "Missing copyright", content |-> file.content]

\* insert_missing_copyright: what is printed and the file's content afterwards
insert_missing_copyright(filename, file, content, year, owner) ==
    LET new_copyright == COPYRIGHT(year, owner)
        wrapped == wrap_copyright(filename, new_copyright)
        index == get_index_after_special_lines(content)
        new_line == IF content # <<>> THEN <<NL>> ELSE <<>>
        new_content ==
            IF index # 0
            THEN Slice(content, 0, index) \o wrapped \o From(content, index)
            ELSE wrapped \o new_line \o content
    IN  IF wrapped # <<>>
        THEN [out |-> "Adding copyright", content |-> write_file(file, new_content)]
        ELSE [out |-> "Missing copyright", content |-> file.content]

\* The new header text of a stale header (check_copyright, lines 223-231)
new_copyright_text(full_match, first_year, second_year, curr_year) ==
    IF second_year = None
    THEN ReplaceAll(full_match, IntToStr(first_year),
                    IntToStr(first_year) \o <<","," ">> \o IntToStr(curr_year))
    ELSE ReplaceAll(full_match, IntToStr(second_year), IntToStr(curr_year))

\* should_check of check_copyright (lines 208-217)
should_check(filename, log_out, index_paths, curr_year) ==
    \/ Falsy(file_authored(log_out))
    \/ file_authored(log_out) = curr_year
    \/ file_staged(filename, index_paths)

\* check_copyright, lines 233-239: a stale header that is to be rechecked
refresh_stale(update, file, new_copyright, content, owner) ==
    IF update
    THEN [ret |-> 1, out |-> "Updating copyright",
          content |-> write_file(file,
                          copyright_rgx_sub1(new_copyright, content, owner))]
    ELSE [ret |-> 1, out |-> "Copyright is out-of-date", content |-> file.content]

\* handle_missing with the update flag ignored
handle_missing_always(update, filename, file, content, curr_year, owner) ==
    LET ins == insert_missing_copyright(filename, file, content, curr_year, owner)
    IN  [ret |-> 1, out |-> ins.out, content |-> ins.content]

\* check_copyright, lines 243-249: no header in the head of the file
handle_missing(update, filename, file, content, curr_year, owner) ==
    IF update
    THEN LET ins == insert_missing_copyright(filename, file, content,
                                             curr_year, owner)
         IN  [ret |-> 1, out |-> ins.out, content |-> ins.content]
    ELSE [ret |-> 1, out |-> "Missing copyright", content |-> file.content]

\* check_copyright: the returned code, what is printed last and the content
\* of the file afterwards
check_copyright(filename, owner, update, file, log_out, index_paths, curr_year) ==
    LET content == file.content
        head == content_head(content)
        m == copyright_rgx_search(head, owner)
        full_match == Slice(head, m.start, m.end)
        first_year == StrToInt(m.group1)
        second_year == IF m.group2 # <<>> THEN StrToInt(From(m.group2, 2))
                       ELSE None
        last_year == PyOr(second_year, first_year)
        new_copyright ==
            new_copyright_text(full_match, first_year, second_year, curr_year)
    IN  IF ~file.readable
          THEN [ret |-> 0, out |-> "Cannot read", content |-> file.content]
        ELSE IF m.ok
          THEN IF should_check(filename, log_out, index_paths, curr_year)
                  /\ last_year < curr_year
               THEN refresh_stale(update, file, new_copyright, content, owner)
               ELSE [ret |-> 0, out |-> "", content |-> file.content]
        ELSE handle_missing(update, filename, file, content, curr_year, owner)

\* ------------------------------------------------------------------ state
VARIABLES
    hook,            \* the hook that runs: "copyright", "imports" or "version"
    args,            \* its command-line arguments
    disk,            \* the files of the working tree, by path
    repo,            \* what the git queries answer
    today,           \* datetime.date.today().year
    pc,              \* "loop": in the loop over the inputs; "done": returned;
                     \* "bubble", "files": the loops of check_version_bump;
                     \* "raised": left by an exception
    i,               \* the index of the next input of the loop (1-based)
    result,          \* the local variable result
    log,             \* history: one record per per-file check of this run
    runs,            \* history: one record per finished run
    paths_to_check,  \* check_version_bump: the local set paths_to_check
    path,            \* check_version_bump: the local variable path
    todo,            \* check_version_bump: the directories not yet iterated
    calls            \* history: one record per call of utils.get_changes
vars == <<hook, args, disk, repo, today, pc, i, result, log, runs,
          paths_to_check, path, todo, calls>>
\* The locals of check_version_bump and the history of get_changes
locals == <<paths_to_check, path, todo, calls>>

SeqsUpTo(S, n) == UNION {[1..k -> S] : k \in 0..n}

\* ------------------------------------------------- copyright_checker: inputs
Owners == {<<"f","a","k","e">>, <<"b","2","0","0","0","x">>}
\* The year texts of the headers found in files
HeaderYears == {<<"2","0","0","0">>, <<"2","0","2","4">>, <<"0","9","9","9">>, <<"2","0","0","0",","," ","2","0","0","0">>,
                <<"2","0","0","0",","," ","2","0","2","3">>, <<"2","0","0","0",","," ","2","0","2","4">>, <<"2","0","2","4",","," ","0","0","0","0">>}
HashHeader(years, owner) ==
    <<"#","\n","#"," ","C","o","p","y","r","i","g","h","t"," ","(","c",")"," ">> \o years \o <<" ","b","y"," ">> \o owner
        \o <<"."," ","A","l","l"," ","r","i","g","h","t","s"," ","r","e","s","e","r","v","e","d",".","\n","#","\n">>
MdHeader(years, owner) ==
    <<"[","/","/","]",":"," ","#"," ","(","C","o","p","y","r","i","g","h","t"," ","\\","(","c","\\",")"," ">> \o years \o <<" ","b","y"," ">> \o owner
        \o <<"."," ","A","l","l"," ","r","i","g","h","t","s"," ","r","e","s","e","r","v","e","d",".",")","\n">>
Shebang == <<"#","!","s","h">>
Coding == <<"#"," ","c","o","d","i","n","g",":"," ","u","8">>
\* What a file starts with: nothing, a shebang line, an encoding line, both;
\* the last line of the file may lack its newline
Preambles ==
    {<<>>, Shebang \o <<NL>>, Shebang, Coding \o <<NL>>, Coding,
     Shebang \o <<NL>> \o Coding \o <<NL>>, Shebang \o <<NL>> \o Coding,
     <<"#"," ","x","\n">> \o Coding \o <<NL>>}
Bodies == {<<>>, <<"h","i","\n">>}
NoDot == <<"M","a","k","e","f","i","l","e">>
FileNames == {<<"a",".","p","y">>, <<"a",".","l","u","a">>, <<"a",".","m","d">>, <<"a",".","j","s">>, <<"a",".","f","a","k","e">>, NoDot}
\* Files without a header, under every name; files with a header
CopyrightFiles ==
    {[name |-> n, content |-> p \o b] :
        n \in FileNames, p \in Preambles, b \in Bodies}
    \cup {[name |-> <<"a",".","p","y">>, content |-> p \o HashHeader(y, o) \o <<"h","i","\n">>] :
            p \in {<<>>, Shebang \o <<NL>>}, y \in HeaderYears, o \in Owners}
    \cup {[name |-> <<"a",".","m","d">>, content |-> MdHeader(y, <<"f","a","k","e">>) \o <<"\n","h","i","\n">>] :
            y \in {<<"2","0","0","0">>, <<"2","0","0","0",","," ","2","0","2","3">>}}
    \cup {[name |-> <<"a",".","p","y">>,
           content |-> <<"h","i","\n">> \o HashHeader(<<"2","0","0","0">>, <<"f","a","k","e">>)]}
\* git log --format=%at -1: nothing, 2024-01-03, 2023-12-31 23:59:59,
\* 2024-01-01 00:00:00 (UTC)
LogOutputs == {<<>>, <<"1","7","0","4","3","2","1","3","4","9">>, <<"1","7","0","4","0","6","7","1","9","9">>, <<"1","7","0","4","0","6","7","2","0","0">>}
\* The file's access rights, the output of git log for it and whether it
\* is staged
ReadWrite == [readable |-> TRUE, writable |-> TRUE]
FileStates ==
    {[access |-> ReadWrite, log |-> l, staged |-> FALSE] : l \in LogOutputs}
    \cup {[access |-> ReadWrite, log |-> <<"1","7","0","4","0","6","7","1","9","9">>, staged |-> TRUE],
          [access |-> [readable |-> TRUE, writable |-> FALSE],
           log |-> <<>>, staged |-> FALSE],
          [access |-> [readable |-> FALSE, writable |-> TRUE],
           log |-> <<>>, staged |-> FALSE]}
Years == {2024}

Idle == /\ paths_to_check = {}
        /\ path = <<>>
        /\ todo = {}
        /\ calls = <<>>
Start == /\ pc = "loop"
         /\ i = 1
         /\ result = 0
         /\ log = <<>>
         /\ runs = <<>>

\* One file on the command line, drawn from all the files above
InitCopyright ==
    /\ hook = "copyright"
    /\ \E f \in CopyrightFiles, o \in Owners, u \in BOOLEAN, st \in FileStates :
          /\ args = [filenames |-> <<f.name>>, owner |-> o, update |-> u]
          /\ disk = (abspath(f.name) :>
                        [content |-> f.content, readable |-> st.access.readable,
                         writable |-> st.access.writable])
          /\ repo = [log |-> (abspath(f.name) :> st.log),
                     index |-> IF st.staged THEN {f.name} ELSE {}]
    /\ today \in Years
    /\ Start
    /\ Idle

\* ------------------------------------------------ copyright_checker: actions
\* One iteration of the loop of copyright_checker: check_copyright on the
\* next file, the write included
CopyrightStep ==
    /\ hook = "copyright"
    /\ pc = "loop"
    /\ i <= Len(args.filenames)
    /\ LET abs_filename == abspath(args.filenames[i])
           r == check_copyright(abs_filename, args.owner, args.update,
                                disk[abs_filename], repo.log[abs_filename],
                                repo.index, today)
       IN  /\ disk' = [disk EXCEPT ![abs_filename].content = r.content]
           /\ result' = accumulate(r.ret, result)
           /\ log' = Append(log, [filename |-> abs_filename, ret |-> r.ret,
                                  out |-> r.out,
                                  before |-> disk[abs_filename].content,
                                  after |-> r.content])
    /\ i' = i + 1
    /\ UNCHANGED <<hook, args, repo, today, pc, runs, locals>>

\* The loop is over: copyright_checker returns result
CopyrightReturn ==
    /\ hook = "copyright"
    /\ pc = "loop"
    /\ i > Len(args.filenames)
    /\ pc' = "done"
    /\ runs' = Append(runs, [code |-> result, log |-> log, disk |-> disk])
    /\ UNCHANGED <<hook, args, disk, repo, today, i, result, log,
                   locals>>

\* The hook is run again with the same arguments, year and git state
CopyrightRerun ==
    /\ hook = "copyright"
    /\ pc = "done"
    /\ Len(runs) < MaxRuns
    /\ pc' = "loop"
    /\ i' = 1
    /\ result' = 0
    /\ log' = <<>>
    /\ UNCHANGED <<hook, args, disk, repo, today, runs, locals>>

NextCopyright == CopyrightStep \/ CopyrightReturn \/ CopyrightRerun
SpecCopyright == InitCopyright /\ [][NextCopyright]_vars

\* ---- only_module_imports
\* MaxStmts bounds the number of top-level statements of a checked file.
MaxStmts == 2

\* s.split(","), as a sequence of strings
RECURSIVE SplitComma(_)
SplitComma(s) ==
    IF Find(s, ",") < 0 THEN <<s>>
    ELSE <<Slice(s, 0, Find(s, ","))>> \o SplitComma(From(s, Find(s, ",") + 1))
\* main: set(args.skip_modules), from the -s option (default [])
main_skip_modules(option) ==
    IF option.given
    THEN {SplitComma(option.value)[k] : k \in 1..Len(SplitComma(option.value))}
    ELSE {}

\* The exceptions of astroid that the hook names: AstroidImportError and
\* AstroidSyntaxError are AstroidBuildingError, of which
\* AstroidBuildingException is another name
IsAstroidBuildingException(e) == e \in {"AstroidImportError", "AstroidSyntaxError"}
IsAstroidImportError(e) == e = "AstroidImportError"

\* What astroid answers in the environment the hook runs in.
\* node.do_import_module(modname): "ok" or the exception raised
do_import_module(modname) ==
    IF modname \in {<<"o","s">>, <<"p","k","g">>, <<"d","a","t","e","t","i","m","e">>, <<"_","_","f","u","t","u","r","e","_","_">>} THEN "ok"
    ELSE IF modname = <<"b","r","o","k","e","n">> THEN "AstroidSyntaxError"
    ELSE "AstroidImportError"
\* The submodules of the modules that can be imported
Submodules ==
    {<<<<"o","s">>, <<"p","a","t","h">>>>, <<<<"p","k","g">>, <<"s","u","b">>>>, <<<<"p","k","g">>, <<"I","m","a","g","e">>>>}
\* imported_module.import_module(name, True): "ok" or the exception raised
import_module(modname, name) ==
    IF <<modname, name>> \in Submodules THEN "ok"
    ELSE IF <<modname, name>> = <<<<"p","k","g">>, <<"b","a","d">>>> THEN "AstroidSyntaxError"
    ELSE "AstroidImportError"

\* name[0].isupper()
FirstIsUpper(name) == name[1] \in Upper

\* Lines 39-46: the module was not imported; the number of messages printed
RECURSIVE flag_by_convention(_)
flag_by_convention(names) ==
    IF names = <<>> THEN 0
    ELSE (IF FirstIsUpper(names[1]) THEN 1 ELSE 0)
            + flag_by_convention(Tail(names))

\* flag_by_resolution without the skip of wildcard imports
RECURSIVE flag_by_resolution_wild(_, _)
flag_by_resolution_wild(modname, names) ==
    IF names = <<>> THEN 0
    ELSE (IF IsAstroidImportError(import_module(modname, names[1]))
          THEN 1 ELSE 0) + flag_by_resolution_wild(modname, Tail(names))

\* Lines 48-63: the module was imported; the number of messages printed
RECURSIVE flag_by_resolution(_, _)
flag_by_resolution(modname, names) ==
    IF names = <<>> THEN 0
    ELSE (IF names[1] = <<"*">> THEN 0
          ELSE IF IsAstroidImportError(import_module(modname, names[1])) THEN 1
          ELSE 0) + flag_by_resolution(modname, Tail(names))

\* The body of the loop over tree.body (lines 29-63) for one node: the
\* number of messages printed for it
check_node(node, skip_modules) ==
    IF node.type # "ImportFrom" THEN 0
    ELSE IF node.modname \in skip_modules THEN 0
    ELSE IF IsAstroidBuildingException(do_import_module(node.modname))
         THEN flag_by_convention(node.names)
    ELSE flag_by_resolution(node.modname, node.names)

\* _check_only_modules_imported on a parsed file: the returned result and,
\* per statement of tree.body, the number of messages printed for it
RECURSIVE scan_body(_, _, _, _)
scan_body(body, k, skip_modules, acc) ==
    IF k > Len(body) THEN acc
    ELSE LET n == check_node(body[k], skip_modules)
         IN  scan_body(body, k + 1, skip_modules,
                       [result |-> IF n > 0 THEN 1 ELSE acc.result,
                        printed |-> Append(acc.printed, n)])
_check_only_modules_imported(tree, skip_modules) ==
    scan_body(tree.body, 1, skip_modules, [result |-> 0, printed |-> <<>>])

\* ---------------------------------------------- only_module_imports: inputs
ImportFrom(m, ns) == [type |-> "ImportFrom", modname |-> m, names |-> ns]
Statements ==
    {ImportFrom(<<"o","s">>, <<<<"p","a","t","h">>>>),
     ImportFrom(<<"o","s">>, <<<<"p","a","t","h">>, <<"g","e","t","c","w","d">>>>),
     ImportFrom(<<"o","s">>, <<<<"*">>>>),
     ImportFrom(<<"d","a","t","e","t","i","m","e">>, <<<<"d","a","t","e","t","i","m","e">>>>),
     ImportFrom(<<"p","k","g">>, <<<<"I","m","a","g","e">>, <<"b","a","d">>>>),
     ImportFrom(<<"j","o","r","g","e","t","o","m","t","z">>, <<<<"J","o","r","g","e">>>>),
     ImportFrom(<<"j","o","r","g","e","t","o","m","t","z">>, <<<<"j","o","r","g","i","t","o">>>>),
     ImportFrom(<<"b","r","o","k","e","n">>, <<<<"t","h","i","n","g">>, <<"C","l","s">>>>),
     ImportFrom(<<"_","_","f","u","t","u","r","e","_","_">>, <<<<"a","n","n","o","t","a","t","i","o","n","s">>>>),
     [type |-> "Import", names |-> <<<<"d","a","t","e","t","i","m","e">>>>],
     [type |-> "FunctionDef",
      body |-> <<ImportFrom(<<"d","a","t","e","t","i","m","e">>, <<<<"d","a","t","e","t","i","m","e">>>>)>>]}
\* astroid.parse(content): a tree, or AstroidSyntaxError
Trees ==
    {[parsed |-> TRUE, body |-> b] : b \in SeqsUpTo(Statements, MaxStmts)}
    \cup {[parsed |-> FALSE, body |-> <<>>]}
SkipOptions ==
    {[given |-> FALSE, value |-> <<>>],
     [given |-> TRUE, value |-> <<"_","_","f","u","t","u","r","e","_","_">>],
     [given |-> TRUE, value |-> <<"o","s",",","j","o","r","g","e","t","o","m","t","z">>]}

InitImports ==
    /\ hook = "imports"
    /\ \E t \in Trees, o \in SkipOptions :
          /\ args = [filenames |-> <<<<"m",".","p","y">>>>, skip_modules |-> main_skip_modules(o)]
          /\ disk = (<<"m",".","p","y">> :> t)
    /\ repo = [log |-> <<>>, index |-> {}]
    /\ today \in Years
    /\ Start
    /\ Idle

\* --------------------------------------------- only_module_imports: actions
\* One iteration of the loop of check_only_modules_imported on a file that
\* astroid parses
ImportsStep ==
    /\ hook = "imports"
    /\ pc = "loop"
    /\ i <= Len(args.filenames)
    /\ disk[args.filenames[i]].parsed
    /\ LET r == _check_only_modules_imported(disk[args.filenames[i]],
                                             args.skip_modules)
       IN  /\ result' = accumulate(r.result, result)
           /\ log' = Append(log, [filename |-> args.filenames[i],
                                  ret |-> r.result, printed |-> r.printed])
    /\ i' = i + 1
    /\ UNCHANGED <<hook, args, disk, repo, today, pc, runs, locals>>

\* astroid.parse raises on the next file: the hook ends with the exception
ImportsRaise ==
    /\ hook = "imports"
    /\ pc = "loop"
    /\ i <= Len(args.filenames)
    /\ ~disk[args.filenames[i]].parsed
    /\ pc' = "raised"
    /\ UNCHANGED <<hook, args, disk, repo, today, i, result, log, runs,
                   locals>>

\* The loop is over: check_only_modules_imported returns result
ImportsReturn ==
    /\ hook = "imports"
    /\ pc = "loop"
    /\ i > Len(args.filenames)
    /\ pc' = "done"
    /\ runs' = Append(runs, [code |-> result, log |-> log, disk |-> disk])
    /\ UNCHANGED <<hook, args, disk, repo, today, i, result, log,
                   locals>>

NextImports == ImportsStep \/ ImportsRaise \/ ImportsReturn
SpecImports == InitImports /\ [][NextImports]_vars

\* ---- utils.get_changes, check_version_bumped
\* typing.TYPE_CHECKING when the program runs
TYPE_CHECKING == FALSE
\* The names bound in the module utils when it runs: "import git" stands
\* under "if typing.TYPE_CHECKING:"
utils_globals == IF TYPE_CHECKING THEN {"typing", "git"} ELSE {"typing"}

DiffUpstream == "git diff @{upstream} @ filename"
DiffPrevious == "git diff HEAD~ filename"
\* utils.get_changes(repo, filename): the exception it ends with ("" for
\* none), the text it returns, and the git commands it ran.  The upstream
\* diff raises GitCommandError when r.upstream is false; the except clause
\* then evaluates the expression git.exc.GitCommandError in utils.
get_changes(r, filename) ==
    IF r.upstream
      THEN [raised |-> "", value |-> r.diff_upstream[abspath(filename)],
            git |-> <<DiffUpstream>>]
    ELSE IF "git" \notin utils_globals
      THEN [raised |-> "NameError", value |-> <<>>, git |-> <<DiffUpstream>>]
    ELSE IF r.parent
      THEN [raised |-> "", value |-> r.diff_previous[abspath(filename)],
            git |-> <<DiffUpstream, DiffPrevious>>]
    ELSE [raised |-> "GitCommandError", value |-> <<>>,
          git |-> <<DiffUpstream, DiffPrevious>>]

VERSION_FILES == <<<<"p","y","p","r","o","j","e","c","t",".","t","o","m","l">>, <<"s","e","t","u","p",".","c","f","g">>>>

\* version_rgx.search(s) is not None, for
\*   version = "?(([0-9]+)\.?([0-9+])?\.?([0-9+])?\.?([0-9+])?)"?
\* All that follows the first digit is optional.
version_rgx_search(s) ==
    \E k \in 0..Len(s) :
        LET d == Opt(s, Lit(s, k, <<"v","e","r","s","i","o","n"," ","="," ">>), <<"\"">>)
        IN  d >= 0 /\ d < Len(s) /\ s[d + 1] \in Digit

\* os.path.dirname(p)
RECURSIVE RStripSlash(_)
RStripSlash(s) ==
    IF s # <<>> /\ s[Len(s)] = "/" THEN RStripSlash(SubSeq(s, 1, Len(s) - 1))
    ELSE s
dirname(p) ==
    LET head == Slice(p, 0, RFind(p, "/") + 1)
    IN  IF head # <<>> /\ \E k \in 1..Len(head) : head[k] # "/"
        THEN RStripSlash(head) ELSE head
\* os.path.exists(p), for p relative to the working directory or absolute
exists(p, files) == abspath(p) \in DOMAIN files

\* check_version_file with every change of the file taken for a bump
check_version_file_any_change(r, version_file, files) ==
    LET changes == get_changes(r, version_file)
    IN  IF version_rgx_search(files[abspath(version_file)].content)
        THEN [raised |-> changes.raised,
              ret |-> IF changes.value # <<>> THEN 0 ELSE 1,
              calls |-> <<changes>>]
        ELSE [raised |-> "", ret |-> 0, calls |-> <<>>]

\* check_version_file: the exception it ends with, the code it returns and
\* its calls of get_changes
check_version_file(r, version_file, files) ==
    LET content == files[abspath(version_file)].content
        changes == get_changes(r, version_file)
    IN  IF version_rgx_search(content)
        THEN [raised |-> changes.raised,
              ret |-> IF version_rgx_search(changes.value) THEN 0 ELSE 1,
              calls |-> <<changes>>]
        ELSE [raised |-> "", ret |-> 0, calls |-> <<>>]

CallRecord(filename, c) ==
    [filename |-> filename, raised |-> c.raised, value |-> c.value, git |-> c.git]

\* Line 63 for one version file: acc, which holds result, the log and the
\* calls so far, after the call c of check_version_file
after_check(acc, version_file_path, c) ==
    [raised |-> c.raised,
     result |-> IF c.raised = "" THEN accumulate(c.ret, acc.result)
                ELSE acc.result,
     log |-> IF c.raised = ""
             THEN Append(acc.log, [filename |-> version_file_path, ret |-> c.ret])
             ELSE acc.log,
     calls |-> acc.calls \o
               [n \in 1..Len(c.calls) |->
                   CallRecord(version_file_path, c.calls[n])]]
\* The loop over VERSION_FILES (lines 60-63) for one directory, from the
\* k-th name on.  The call of check_version_file and the new acc are bound
\* as values, each computed once.
RECURSIVE check_directory(_, _, _, _, _)
check_directory(r, dir, k, files, acc) ==
    IF k > Len(VERSION_FILES) \/ acc.raised # "" THEN acc
    ELSE LET version_file_path == PathJoin(dir, VERSION_FILES[k])
         IN  IF exists(version_file_path, files)
             THEN CHOOSE out \in
                    {check_directory(r, dir, k + 1, files, a) :
                        a \in {after_check(acc, version_file_path, c) :
                                 c \in {check_version_file(r, version_file_path,
                                                           files)}}} : TRUE
             ELSE check_directory(r, dir, k + 1, files, acc)

\* ------------------------------------------------ check_version_bump: inputs
\* The paths given on the command line: relative to the working directory
\* (with one, two and no directory) and absolute
Unchanged == <<"d","/","e","/","b",".","p","y">>
InputPaths == {<<"a",".","p","y">>, <<"d","/","a",".","p","y">>, <<"d","/","e","/","c",".","p","y">>, Unchanged, <<"/","w","/","d","/","a",".","p","y">>}
VersionText == <<"[","p","r","o","j","e","c","t","]","\n","v","e","r","s","i","o","n"," ","="," ","\"","0",".","1",".","0","\"","\n">>
BumpDiff == <<"-","v","e","r","s","i","o","n"," ","="," ","\"","0",".","1",".","0","\"","\n","+","v","e","r","s","i","o","n"," ","="," ","\"","0",".","2",".","0","\"","\n">>
OtherDiff == <<"+","x","\n">>
\* A version file: its content and its diff against upstream
VersionFileStates ==
    {[content |-> VersionText, diff |-> <<>>, absent |-> FALSE],
     [content |-> VersionText, diff |-> OtherDiff, absent |-> FALSE],
     [content |-> VersionText, diff |-> BumpDiff, absent |-> FALSE],
     [content |-> <<"n","a","m","e"," ","="," ","x","\n">>, diff |-> OtherDiff, absent |-> FALSE]}
Absent == [content |-> <<>>, diff |-> <<>>, absent |-> TRUE]
\* The version files of the working tree: two in d, one at the root
VersionTrees ==
    {[f \in {<<"/","w","/","d","/","p","y","p","r","o","j","e","c","t",".","t","o","m","l">>, <<"/","w","/","d","/","s","e","t","u","p",".","c","f","g">>, <<"/","w","/","s","e","t","u","p",".","c","f","g">>} |->
        IF f = <<"/","w","/","d","/","p","y","p","r","o","j","e","c","t",".","t","o","m","l">> THEN a
        ELSE IF f = <<"/","w","/","d","/","s","e","t","u","p",".","c","f","g">> THEN b ELSE c] :
        a \in VersionFileStates \cup {Absent},
        b \in VersionFileStates \cup {Absent},
        c \in {[content |-> VersionText, diff |-> <<>>, absent |-> FALSE], Absent}}
\* The files of tree t that exist
Present(t) ==
    [f \in {g \in DOMAIN t : ~t[g].absent} |-> [content |-> t[f].content]]
\* The diff of every path against upstream: every input but Unchanged has
\* changed
Diffs(t) ==
    [f \in DOMAIN t \cup {abspath(q) : q \in InputPaths} |->
        IF f \in DOMAIN t THEN t[f].diff
        ELSE IF f = abspath(Unchanged) THEN <<>> ELSE OtherDiff]
\* @{upstream} resolves; it does not but HEAD~ does; neither does
GitStates == {[upstream |-> TRUE, parent |-> TRUE],
              [upstream |-> FALSE, parent |-> TRUE],
              [upstream |-> FALSE, parent |-> FALSE]}

InitVersion ==
    /\ hook = "version"
    /\ \E fs \in SeqsUpTo(InputPaths, MaxFiles), t \in VersionTrees, g \in GitStates :
          /\ args = [filenames |-> fs]
          /\ disk = Present(t)
          /\ repo = [upstream |-> g.upstream, parent |-> g.parent,
                     diff_upstream |-> Diffs(t),
                     diff_previous |-> [f \in DOMAIN Diffs(t) |-> <<"+","p","r","e","v","i","o","u","s","\n">>]]
    /\ today \in Years
    /\ Start
    /\ Idle

\* ----------------------------------------------- check_version_bump: actions
\* The condition of the while loop without its second conjunct
keep_bubbling_nonempty(p, collected) == p # <<>>
\* Line 53: the condition of the while loop
keep_bubbling(p, collected) == p # <<>> /\ p \notin collected

\* Lines 47-51: the next filename; get_changes raises, or the file has no
\* changes, or path becomes its directory
VersionNextFile ==
    /\ hook = "version"
    /\ pc = "loop"
    /\ i <= Len(args.filenames)
    /\ LET c == get_changes(repo, args.filenames[i])
       IN  /\ calls' = Append(calls, CallRecord(args.filenames[i], c))
           /\ IF c.raised # ""
              THEN pc' = "raised" /\ UNCHANGED <<i, path>>
              ELSE IF c.value # <<>>
              THEN pc' = "bubble" /\ path' = dirname(args.filenames[i])
                   /\ UNCHANGED i
              ELSE pc' = "loop" /\ i' = i + 1 /\ UNCHANGED path
    /\ UNCHANGED <<hook, args, disk, repo, today, result, log, runs,
                   paths_to_check, todo>>

\* Lines 53-55: one iteration of the while loop
VersionBubbleUp ==
    /\ hook = "version"
    /\ pc = "bubble"
    /\ keep_bubbling(path, paths_to_check)
    /\ paths_to_check' = paths_to_check \cup {path}
    /\ path' = dirname(path)
    /\ UNCHANGED <<hook, args, disk, repo, today, pc, i, result, log, runs,
                   todo, calls>>

\* Line 53: the condition of the while loop is false
VersionBubbleEnd ==
    /\ hook = "version"
    /\ pc = "bubble"
    /\ ~keep_bubbling(path, paths_to_check)
    /\ pc' = "loop"
    /\ i' = i + 1
    /\ UNCHANGED <<hook, args, disk, repo, today, result, log, runs, locals>>

\* Line 59: the first loop is over, the loop over paths_to_check starts
VersionCollected ==
    /\ hook = "version"
    /\ pc = "loop"
    /\ i > Len(args.filenames)
    /\ pc' = "files"
    /\ todo' = paths_to_check
    /\ UNCHANGED <<hook, args, disk, repo, today, i, result, log, runs,
                   paths_to_check, path, calls>>

\* Lines 59-63: one iteration of the loop over the set paths_to_check, in
\* whatever order the set gives
VersionCheckDirectory ==
    /\ hook = "version"
    /\ pc = "files"
    /\ \E dir \in todo :
          \E r \in {check_directory(repo, dir, 1, disk,
                                    [raised |-> "", result |-> result,
                                     log |-> log, calls |-> calls])} :
              /\ result' = r.result
              /\ log' = r.log
              /\ calls' = r.calls
              /\ pc' = IF r.raised # "" THEN "raised" ELSE "files"
              /\ todo' = todo \ {dir}
    /\ UNCHANGED <<hook, args, disk, repo, today, i, runs, paths_to_check, path>>

\* Line 64: check_version_bump returns result
VersionReturn ==
    /\ hook = "version"
    /\ pc = "files"
    /\ todo = {}
    /\ pc' = "done"
    /\ runs' = Append(runs, [code |-> result, log |-> log, disk |-> disk])
    /\ UNCHANGED <<hook, args, disk, repo, today, i, result, log, locals>>

NextVersion ==
    \/ VersionNextFile
    \/ VersionBubbleUp
    \/ VersionBubbleEnd
    \/ VersionCollected
    \/ VersionCheckDirectory
    \/ VersionReturn
SpecVersion == InitVersion /\ [][NextVersion]_vars

\* ---- the three hooks over lists of inputs
\* The files of the working directory for copyright_checker: a stale header,
\* a current header, no header, an unreadable file
ManyCopyrightDisk ==
    [f \in {abspath(<<"a",".","p","y">>), abspath(<<"b",".","p","y">>), abspath(<<"c",".","p","y">>),
            abspath(<<"d",".","p","y">>)} |->
        [content |-> IF f = abspath(<<"a",".","p","y">>)
                       THEN HashHeader(<<"2","0","0","0">>, <<"f","a","k","e">>) \o <<"h","i","\n">>
                     ELSE IF f = abspath(<<"b",".","p","y">>)
                       THEN HashHeader(<<"2","0","2","4">>, <<"f","a","k","e">>) \o <<"h","i","\n">>
                     ELSE <<"h","i","\n">>,
         readable |-> f # abspath(<<"d",".","p","y">>),
         writable |-> TRUE]]
InitCopyrightMany ==
    /\ hook = "copyright"
    /\ \E fs \in SeqsUpTo({<<"a",".","p","y">>, <<"b",".","p","y">>, <<"c",".","p","y">>, <<"d",".","p","y">>}, MaxFiles),
          u \in BOOLEAN :
          args = [filenames |-> fs, owner |-> <<"f","a","k","e">>, update |-> u]
    /\ disk = ManyCopyrightDisk
    /\ repo = [log |-> [f \in DOMAIN ManyCopyrightDisk |-> <<>>], index |-> {}]
    /\ today \in Years
    /\ Start
    /\ Idle

\* The files for check_only_modules_imported: one importing a class, one
\* importing a module, one importing both, one that astroid cannot parse
ManyImportsDisk ==
    [f \in {<<"m",".","p","y">>, <<"n",".","p","y">>, <<"o",".","p","y">>, <<"s",".","p","y">>} |->
        IF f = <<"m",".","p","y">>
          THEN [parsed |-> TRUE,
                body |-> <<ImportFrom(<<"d","a","t","e","t","i","m","e">>, <<<<"d","a","t","e","t","i","m","e">>>>)>>]
        ELSE IF f = <<"n",".","p","y">>
          THEN [parsed |-> TRUE, body |-> <<ImportFrom(<<"o","s">>, <<<<"p","a","t","h">>>>)>>]
        ELSE IF f = <<"o",".","p","y">>
          THEN [parsed |-> TRUE,
                body |-> <<ImportFrom(<<"o","s">>, <<<<"p","a","t","h">>>>),
                           ImportFrom(<<"j","o","r","g","e","t","o","m","t","z">>, <<<<"J","o","r","g","e">>>>)>>]
        ELSE [parsed |-> FALSE, body |-> <<>>]]
InitImportsMany ==
    /\ hook = "imports"
    /\ \E fs \in SeqsUpTo(DOMAIN ManyImportsDisk, MaxFiles), o \in SkipOptions :
          args = [filenames |-> fs, skip_modules |-> main_skip_modules(o)]
    /\ disk = ManyImportsDisk
    /\ repo = [log |-> <<>>, index |-> {}]
    /\ today \in Years
    /\ Start
    /\ Idle

Init == InitCopyrightMany \/ InitImportsMany \/ InitVersion
Next == NextCopyright \/ NextImports \/ NextVersion
Spec == Init /\ [][Next]_vars

\* --------------------------------------------------------------------
\* Claims about copyright_checker (checked under SpecCopyright)
\* --------------------------------------------------------------------
Registered(filename) ==
    LastDotSegment(Basename(filename))
        \in HASH_ENDINGS \cup DASH_ENDINGS \cup MD_ENDINGS \cup STAR_ENDINGS
\* The entries of the log of this run that wrote a file
Wrote(k, what) ==
    /\ log[k].out = what
    /\ disk[log[k].filename].writable
\* The header that insert_missing_copyright is to write into filename
ExpectedHeader(filename) == wrap_copyright(filename, COPYRIGHT(today, args.owner))
\* The index after the line of s that starts at index a (the whole rest when
\* it has no newline)
LineEnd(s, a) ==
    IF Find(From(s, a), NL) < 0 THEN Len(s) ELSE a + Find(From(s, a), NL) + 1

\* The stale header of content b with its last year made the current year:
\* the first year is followed by ", Y" and nothing else changes
RefreshedText(b) ==
    LET m == copyright_rgx_search(b, args.owner)
        g1end == m.end - Len(args.owner) - 4 - Len(m.group2)
    IN  Slice(b, 0, g1end) \o <<","," ">> \o IntToStr(today)
            \o From(b, g1end + Len(m.group2))
\* The years of the header of b are Y1 < Y, or Y1 <= Y2 < Y
StaleYears(b) ==
    LET m == copyright_rgx_search(b, args.owner)
        y1 == StrToInt(m.group1)
        y2 == StrToInt(From(m.group2, 2))
    IN  IF m.group2 = <<>> THEN y1 < today ELSE y1 <= y2 /\ y2 < today

\* C1: an update of a stale header (single year Y1 < Y, or range Y1, Y2 with
\* Y1 <= Y2 < Y) writes the file with the header's years made "Y1, Y" and
\* every other character of the header and of the file unchanged.
C1_StaleHeaderBecomesRange ==
    \A k \in 1..Len(log) :
        Wrote(k, "Updating copyright") /\ StaleYears(log[k].before)
            => log[k].after = RefreshedText(log[k].before)

\* C2: after a run with update=true that inserted or refreshed the header of
\* a writable file with a registered comment style, a second run with the
\* same arguments returns 0 and leaves the file unchanged.
C2_SecondRunIsNoOp ==
    Len(runs) = 2
        => \A k \in 1..Len(runs[1].log) :
              LET e == runs[1].log[k]
              IN  /\ e.out \in {"Adding copyright", "Updating copyright"}
                  /\ disk[e.filename].writable
                  /\ Registered(e.filename)
                  => runs[2].code = 0 /\ runs[2].disk = runs[1].disk

\* The index after the shebang and encoding lines among the first two lines
\* of b: an encoding line may be line 1 or line 2, a shebang line 1
SpecialLinesEnd(b) ==
    LET e1 == LineEnd(b, 0)
        e2 == LineEnd(b, e1)
        l1 == Slice(b, 0, e1)
        l2 == Slice(b, e1, e2)
    IN  IF encoding_rgx_match(l2) THEN e2
        ELSE IF StartsWithAt(l1, 0, <<"#","!">>) \/ encoding_rgx_match(l1) THEN e1
        ELSE 0
\* C3: an inserted header is written after the shebang and encoding lines
\* of the first two lines of the file, which stay verbatim above it, with
\* or without a final newline.
C3_SpecialLinesStayAboveHeader ==
    \A k \in 1..Len(log) :
        Wrote(k, "Adding copyright")
            => LET b == log[k].before
                   keep == SpecialLinesEnd(b)
               IN  /\ Slice(log[k].after, 0, keep) = Slice(b, 0, keep)
                   /\ \E q \in keep..Len(log[k].after) :
                         StartsWithAt(log[k].after, q,
                                      ExpectedHeader(log[k].filename))

\* C4: an inserted header is exactly wrap_copyright's header: alone in the
\* file when the file was empty, and otherwise followed (after at most one
\* newline) by all of the original content from the insertion point on,
\* with the original content before the insertion point above it.
C4_InsertKeepsContent ==
    \A k \in 1..Len(log) :
        Wrote(k, "Adding copyright")
            => LET b == log[k].before
                   h == ExpectedHeader(log[k].filename)
               IN  IF b = <<>> THEN log[k].after = h
                   ELSE \E q \in 0..Len(b), sep \in {<<>>, <<NL>>} :
                           log[k].after =
                               Slice(b, 0, q) \o h \o sep \o From(b, q)
\* A header was inserted below a preamble of a file that had content
C4_Witness ==
    \E k \in 1..Len(log) :
        /\ Wrote(k, "Adding copyright")
        /\ get_index_after_special_lines(log[k].before) > 0
        /\ Len(log[k].after) > Len(log[k].before)
        /\ pc = "done"

Offending(n, skip_modules) ==
    /\ n.type = "ImportFrom"
    /\ n.modname \notin skip_modules
    /\ \/ /\ do_import_module(n.modname) = "ok"
          /\ \E j \in 1..Len(n.names) :
                /\ n.names[j] # <<"*">>
                /\ import_module(n.modname, n.names[j]) = "AstroidImportError"
       \/ /\ do_import_module(n.modname) # "ok"
          /\ \E j \in 1..Len(n.names) : n.names[j][1] \in Upper

\* C7: _check_only_modules_imported returns 1 iff some top-level from-import
\* statement is offending in the sense (a) or (b); every offending statement
\* is reported, also after an earlier one was, and no other statement is.
C7_FlaggedIffOffending ==
    \A k \in 1..Len(log) :
        LET body == disk[log[k].filename].body
        IN  /\ log[k].ret = 1
                <=> \E n \in 1..Len(body) : Offending(body[n], args.skip_modules)
            /\ log[k].ret \in {0, 1}
            /\ Len(log[k].printed) = Len(body)
            /\ \A n \in 1..Len(body) :
                  log[k].printed[n] > 0
                      <=> Offending(body[n], args.skip_modules)
\* A file was checked in which a statement after an offending one is
\* offending too, with a wildcard import
C7_Witness ==
    \E k \in 1..Len(log) :
        LET body == disk[log[k].filename].body
        IN  /\ Len(body) = 2
            /\ log[k].printed[1] > 0
            /\ log[k].printed[2] > 0
            /\ log[k].ret = 1

\* C8: a top-level "from __future__ import ..." statement is never reported
\* and never makes the result 1, whether or not __future__ is in
\* skip_modules.
C8_FutureAlwaysSkipped ==
    \A k \in 1..Len(log) :
        LET body == disk[log[k].filename].body
        IN  /\ \A n \in 1..Len(body) :
                  body[n].type = "ImportFrom" /\ body[n].modname = <<"_","_","f","u","t","u","r","e","_","_">>
                      => log[k].printed[n] = 0
            /\ (\A n \in 1..Len(body) :
                  body[n].type = "ImportFrom" /\ body[n].modname = <<"_","_","f","u","t","u","r","e","_","_">>)
                  => log[k].ret = 0

\* --------------------------------------------------------------------
\* Claims about check_version_bumped and utils (checked under SpecVersion)
\* --------------------------------------------------------------------
\* The absolute paths of the recognized version files that exist
VersionFilesOnDisk ==
    {f \in DOMAIN disk : \E k \in 1..Len(VERSION_FILES) : Basename(f) = VERSION_FILES[k]}
\* The file's content has a version and its own diff has none
NeedsBump(f) ==
    /\ version_rgx_search(disk[f].content)
    /\ ~version_rgx_search(repo.diff_upstream[f])
\* The directory of p and the directories above it, as os.path.dirname
\* gives them
RECURSIVE Ancestors(_)
Ancestors(p) ==
    LET d == dirname(p)
    IN  IF d = <<>> THEN {}
        ELSE IF d = p THEN {d}
        ELSE {d} \cup Ancestors(d)
\* The directories of the inputs that have a non-empty diff
TouchedDirs ==
    UNION {Ancestors(args.filenames[k]) :
             k \in {n \in 1..Len(args.filenames) :
                      repo.diff_upstream[abspath(args.filenames[n])] # <<>>}}
\* The version files the hook looks at
LookedAt ==
    {f \in VersionFilesOnDisk :
        \E d \in TouchedDirs, k \in 1..Len(VERSION_FILES) :
            f = abspath(PathJoin(d, VERSION_FILES[k]))}

\* C5 as stated: when check_version_bump returns, for every recognized
\* version file whose content matches the version pattern, the result is 1
\* if and only if the file's own diff has no match of the version pattern.
C5_FailsIffOwnDiffLacksVersion ==
    (hook = "version" /\ pc = "done" /\ repo.upstream) =>
        \A f \in VersionFilesOnDisk :
            version_rgx_search(disk[f].content) =>
                (result = 1 <=> ~version_rgx_search(repo.diff_upstream[f]))

\* C5 (amended): the check of one version file returns 1 if and only if
\* its content matches the version pattern and its own diff does not; when
\* check_version_bump returns, the result is 1 if and only if this holds
\* for at least one recognized version file that lies in the directory of
\* an input with a non-empty diff or in a directory above it; a version
\* file whose content has no version pattern is never the cause of a
\* failure.
C5_FailsIffLookedAtFileLacksBump ==
    hook = "version" =>
        /\ \A k \in 1..Len(log) :
              /\ log[k].ret = 1 <=> NeedsBump(abspath(log[k].filename))
              /\ ~version_rgx_search(disk[abspath(log[k].filename)].content)
                    => log[k].ret = 0
        /\ pc = "done" =>
              /\ result = 1 <=> \E f \in LookedAt : NeedsBump(f)
              /\ {abspath(log[k].filename) : k \in 1..Len(log)} = LookedAt
\* check_version_bump has returned 0 although a version file with a version
\* has no bump (it lies in no directory of a changed input), and another run
\* has returned 1 for a file it looked at
C5_Witness ==
    /\ hook = "version"
    /\ pc = "done"
    /\ result = 1
    /\ \E k \in 1..Len(log) : log[k].ret = 1
    /\ \E k \in 1..Len(log) :
          /\ log[k].ret = 0
          /\ version_rgx_search(disk[abspath(log[k].filename)].content)
    /\ \E f \in VersionFilesOnDisk \ LookedAt : NeedsBump(f)

\* C9: every call of get_changes: when the upstream diff fails and the diff
\* against HEAD~ works, the call returns the text of the diff against HEAD~
\* and does not raise; it raises only when the diff against HEAD~ has been
\* run and has failed; when the upstream diff works, the diff against HEAD~
\* is not run and the upstream text is returned.
C9_FallsBackToPreviousCommit ==
    hook = "version" =>
        \A n \in 1..Len(calls) :
            LET c == calls[n]
                f == abspath(c.filename)
            IN  /\ (~repo.upstream /\ repo.parent) =>
                      /\ c.raised = ""
                      /\ c.value = repo.diff_previous[f]
                      /\ c.git = <<DiffUpstream, DiffPrevious>>
                /\ c.raised # "" =>
                      /\ ~repo.upstream /\ ~repo.parent
                      /\ c.raised = "GitCommandError"
                      /\ c.git = <<DiffUpstream, DiffPrevious>>
                /\ repo.upstream =>
                      /\ c.raised = ""
                      /\ c.value = repo.diff_upstream[f]
                      /\ c.git = <<DiffUpstream>>

\* --------------------------------------------------------------------
\* Claims about the three hooks (checked under Spec)
\* --------------------------------------------------------------------
\* The inputs of the per-file checks of the run, in the order of the loop
\* (for check_version_bump the loop goes over a set: no order)
Inputs ==
    IF hook = "copyright"
      THEN [k \in 1..Len(args.filenames) |-> abspath(args.filenames[k])]
      ELSE args.filenames
\* The version files that are in the directories of paths_to_check
VersionInputs ==
    {PathJoin(d, VERSION_FILES[k]) :
        d \in paths_to_check, k \in 1..Len(VERSION_FILES)}

\* C10: in each hook the result is 1 if and only if a per-file check of the
\* run has returned 1 (at any point of the run, so a later check that
\* passes never resets it), the hook returns that result, and when it
\* returns every input has been checked: every file of the list, in order,
\* for copyright_checker and check_only_modules_imported, and every
\* existing version file of every directory of paths_to_check for
\* check_version_bump.
C10_ResultIsOrOfChecks ==
    /\ result \in {0, 1}
    /\ result = 1 <=> \E k \in 1..Len(log) : log[k].ret = 1
    /\ pc = "done" =>
          /\ runs[Len(runs)].code = result
          /\ runs[Len(runs)].log = log
          /\ IF hook = "version"
             THEN {log[k].filename : k \in 1..Len(log)}
                    = {f \in VersionInputs : exists(f, disk)}
             ELSE /\ Len(log) = Len(Inputs)
                  /\ \A k \in 1..Len(log) : log[k].filename = Inputs[k]
\* A hook has returned 1 after a check that returned 1 was followed by a
\* check that returned 0
C10_Witness ==
    /\ pc = "done"
    /\ result = 1
    /\ runs[Len(runs)].code = 1
    /\ \E k \in 1..Len(log), n \in 1..Len(log) :
          k < n /\ log[k].ret = 1 /\ log[n].ret = 0

\* --------------------------------------------------------------------
\* Claims about check_copyright (checked under SpecCopyright)
\* --------------------------------------------------------------------
\* The header found in the head of content b
FoundHeader(b) == copyright_rgx_search(content_head(b), args.owner)
\* The last year of the header: the second year if present, else the first
HeaderLastYear(b) ==
    LET m == FoundHeader(b)
    IN  IF m.group2 # <<>> THEN StrToInt(From(m.group2, 2))
        ELSE StrToInt(m.group1)
\* The file has no git history, or its last commit is of the current year,
\* or it is staged
SubjectToRecheck(filename) ==
    \/ repo.log[filename] = <<>>
    \/ utcfromtimestamp_year(StrToInt(repo.log[filename])) = today
    \/ \E f \in repo.index : PathJoin(WorkingDir, f) = filename

\* C11: for a readable file with a header in its head, check_copyright
\* returns 1 if and only if the header's last year (the second year if
\* present, else the first) is less than the current year and the file is
\* subject to recheck; in every other case it returns 0 and the file is
\* not written.
C11_FailsIffStaleAndRechecked ==
    hook = "copyright" =>
        \A k \in 1..Len(log) :
            LET e == log[k]
            IN  disk[e.filename].readable /\ FoundHeader(e.before).ok =>
                   /\ e.ret = 1 <=> /\ HeaderLastYear(e.before) < today
                                    /\ SubjectToRecheck(e.filename)
                   /\ e.ret = 0 => e.after = e.before
                   /\ e.ret \in {0, 1}

\* --------------------------------------------------------------------
\* Claims about the directories of check_version_bump (checked under
\* SpecVersion)
\* --------------------------------------------------------------------
\* Directory d lies below the root of the repository
BelowRoot(d) == StartsWithAt(d, 0, WorkingDir \o <<"/">>)
\* The inputs whose diff is not empty
ChangedInputs ==
    {args.filenames[n] : n \in {k \in 1..Len(args.filenames) :
        repo.diff_upstream[abspath(args.filenames[k])] # <<>>}}
\* The directory of every changed input and the directories above it, up to
\* but not including the root of the repository
DirsBelowRoot ==
    UNION {{d \in Ancestors(abspath(f)) : BelowRoot(d)} : f \in ChangedInputs}

\* C12: once the first loop of check_version_bump is over, the directories
\* of paths_to_check are exactly the directory of every input with a
\* non-empty diff and the directories above it up to but not including the
\* root of the repository, for relative and absolute inputs; when every
\* input has an empty diff no version file is checked and the result is 0.
C12_DirsUpToRootExcluded ==
    (hook = "version" /\ pc \in {"files", "done"}) =>
        /\ {abspath(d) : d \in paths_to_check} = DirsBelowRoot
        /\ ChangedInputs = {} => log = <<>> /\ result = 0

\* --------------------------------------------------------------------
\* Claims about insert_missing_copyright (checked under SpecCopyright)
\* --------------------------------------------------------------------
\* C13: a header inserted into a file that was not empty, below a shebang
\* or encoding line or at the top, is immediately followed by a blank line
\* and then the rest of the original content; a header inserted into an
\* empty file is followed by nothing.
C13_BlankLineAfterInsertedHeader ==
    hook = "copyright" =>
        \A k \in 1..Len(log) :
            Wrote(k, "Adding copyright")
                => LET b == log[k].before
                       h == ExpectedHeader(log[k].filename)
                   IN  IF b = <<>> THEN log[k].after = h
                       ELSE \E q \in 0..Len(b), sep \in {<<>>, <<NL>>} :
                               /\ log[k].after =
                                     Slice(b, 0, q) \o h \o sep \o From(b, q)
                               /\ StartsWithAt(sep \o From(b, q), 0, <<NL>>)

\* --------------------------------------------------------------------
\* Termination of check_version_bump (checked under SpecBubble)
\* --------------------------------------------------------------------
\* Inputs for the loop of lines 53-55: the paths above, a file of the root
\* directory, the root directory itself, a path with three directories
BubblePaths ==
    InputPaths \cup {<<"/","x",".","p","y">>, <<"/">>, <<"d","/","e","/","f","/","g",".","p","y">>}
\* One working tree: a version file without a bump in d, one at the root
BubbleTree ==
    [f \in {<<"/","w","/","d","/","p","y","p","r","o","j","e","c","t",".","t","o","m","l">>, <<"/","w","/","d","/","s","e","t","u","p",".","c","f","g">>, <<"/","w","/","s","e","t","u","p",".","c","f","g">>} |->
        IF f = <<"/","w","/","d","/","p","y","p","r","o","j","e","c","t",".","t","o","m","l">>
          THEN [content |-> VersionText, diff |-> OtherDiff, absent |-> FALSE]
        ELSE IF f = <<"/","w","/","d","/","s","e","t","u","p",".","c","f","g">> THEN Absent
        ELSE [content |-> VersionText, diff |-> BumpDiff, absent |-> FALSE]]
InitBubble ==
    /\ hook = "version"
    /\ \E fs \in SeqsUpTo(BubblePaths, MaxFiles), g \in GitStates :
          /\ args = [filenames |-> fs]
          /\ repo = [upstream |-> g.upstream, parent |-> g.parent,
                     diff_upstream |->
                        [f \in DOMAIN Diffs(BubbleTree)
                                 \cup {abspath(q) : q \in BubblePaths} |->
                            IF f \in DOMAIN Diffs(BubbleTree)
                            THEN Diffs(BubbleTree)[f] ELSE OtherDiff],
                     diff_previous |->
                        [f \in DOMAIN Diffs(BubbleTree)
                                 \cup {abspath(q) : q \in BubblePaths} |->
                            <<"+","p","r","e","v","i","o","u","s","\n">>]]
    /\ disk = Present(BubbleTree)
    /\ today \in Years
    /\ Start
    /\ Idle
\* check_version_bump is sequential code: it always takes its next step
SpecBubble == InitBubble /\ [][NextVersion]_vars /\ WF_vars(NextVersion)

\* Every collected directory has its parent collected, or its parent is
\* empty, or the loop is about to collect its parent
ParentsCollected ==
    \A d \in paths_to_check :
        \/ dirname(d) = <<>>
        \/ dirname(d) \in paths_to_check
        \/ pc = "bubble" /\ dirname(d) = path
\* check_version_bump has returned, or utils.get_changes has raised
Terminated == pc = "done" \/ (pc = "raised" /\ ~repo.upstream)

\* C14: paths_to_check stays closed under the non-empty parent directory;
\* when the first loop is over it holds every directory above every input
\* with a non-empty diff, so that stopping at a collected directory has
\* omitted none; and every run of check_version_bump ends, for relative
\* and absolute inputs and for "/" whose dirname is itself.
C14_BubblingTerminates ==
    /\ [](ParentsCollected
            /\ (pc \in {"files", "done"} => paths_to_check = TouchedDirs))
    /\ <>Terminated
\* check_version_bump has returned after the loop reached "/" and stopped,
\* for a second input, at a directory the first input had collected
C14_Witness ==
    /\ pc = "done"
    /\ <<"/">> \in paths_to_check
    /\ \E n \in 1..Len(args.filenames), k \in 1..Len(args.filenames) :
          /\ n < k
          /\ args.filenames[n] \in ChangedInputs
          /\ args.filenames[k] \in ChangedInputs
          /\ args.filenames[n] # args.filenames[k]
          /\ Ancestors(args.filenames[n]) \cap Ancestors(args.filenames[k]) # {}
====
